---- MODULE Spec2Model ----
\* The Feistel network of src/src/feistel.rs: round_fn, feistel_encrypt and
\* feistel_decrypt, one action per call, per loop iteration and per return.
EXTENDS Integers, Sequences, FiniteSets, TLC

\* ---------------------------------------------------------------------
\* Bounds of the model.

\* short inputs: every byte sequence over DataBytes of length 0..MaxLen
MaxLen == 3
\* long inputs (halves as long as, and longer than, the digest):
\* lengths LongLen .. LongLen + 3
LongLen == 64
\* keys: the prefixes of KeyMaterial of length 0..MaxKeyLen
MaxKeyLen == 2
\* round counts 0..MaxRounds, and u32::MAX; no loop is followed further
\* than MaxRounds iterations
MaxRounds == 3

DataBytes == {0, 123}
KeyMaterial == <<3, 128, 255, 90>>

SeqsUpTo(S, n) == UNION {[1..m -> S] : m \in 0..n}

LongInput(n) == [j \in 1..n |-> (7 * j) % 256]

Inputs == SeqsUpTo(DataBytes, MaxLen) \cup {LongInput(n) : n \in LongLen..(LongLen + 3)}
Keys == {SubSeq(KeyMaterial, 1, n) : n \in 0..MaxKeyLen}

\* ---------------------------------------------------------------------
\* u32: two 16-bit limbs, so that u32::MAX and the carry out of bit 31 are
\* values of the model.

Limb == 65536
U32(n) == [hi |-> n \div Limb, lo |-> n % Limb]
U32Max == [hi |-> Limb - 1, lo |-> Limb - 1]

\* a + b in u32: the wrapped sum, and whether it overflowed
U32Add(a, b) ==
    LET lo == a.lo + b.lo
        hi == a.hi + b.hi + (lo \div Limb)
    IN  [val |-> [hi |-> hi % Limb, lo |-> lo % Limb], overflow |-> hi >= Limb]

\* a - b in u32, for a >= b
U32Sub(a, b) ==
    LET borrow == IF a.lo < b.lo THEN 1 ELSE 0
    IN  [hi |-> a.hi - b.hi - borrow, lo |-> (a.lo + borrow * Limb) - b.lo]

U32Less(a, b) == a.hi < b.hi \/ (a.hi = b.hi /\ a.lo < b.lo)

RoundCounts == {U32(r) : r \in 0..MaxRounds} \cup {U32Max}

\* ---------------------------------------------------------------------
\* u8 operations.

RECURSIVE BitXor(_, _, _)
BitXor(a, b, n) ==
    IF n = 0 THEN 0
    ELSE ((a + b) % 2) + 2 * BitXor(a \div 2, b \div 2, n - 1)

RECURSIVE BitOr(_, _, _)
BitOr(a, b, n) ==
    IF n = 0 THEN 0
    ELSE (IF (a % 2) + (b % 2) > 0 THEN 1 ELSE 0) + 2 * BitOr(a \div 2, b \div 2, n - 1)

\* mutant of Xor8: a | b
Xor8_or(a, b) == BitOr(a, b, 8)

\* a ^ b
Xor8(a, b) == BitXor(a, b, 8)

\* ---------------------------------------------------------------------
\* Sha3_256 (sha3 crate, FIPS 202): the digest the round function is built
\* on.  A 64-bit lane of the Keccak state is the set of the positions of
\* its 1 bits (bit z of byte k of the lane is position 8k + z); the state
\* is the tuple of its 25 lanes, lane x + 5y at index x + 5y + 1.

Pow2 == <<1, 2, 4, 8, 16, 32, 64, 128, 256>>
Bit(b, j) == (b \div Pow2[j + 1]) % 2

LaneXor(a, b) == (a \ b) \cup (b \ a)
LaneAndNot(b, c) == c \ b
LaneRotl(l, r) == IF r = 0 THEN l ELSE {(z + r) % 64 : z \in l}

KeccakRC ==
    <<{0},
      {1, 7, 15},
      {1, 3, 7, 15, 63},
      {15, 31, 63},
      {0, 1, 3, 7, 15},
      {0, 31},
      {0, 7, 15, 31, 63},
      {0, 3, 15, 63},
      {1, 3, 7},
      {3, 7},
      {0, 3, 15, 31},
      {1, 3, 31},
      {0, 1, 3, 7, 15, 31},
      {0, 1, 3, 7, 63},
      {0, 3, 7, 15, 63},
      {0, 1, 15, 63},
      {1, 15, 63},
      {7, 63},
      {1, 3, 15},
      {1, 3, 31, 63},
      {0, 7, 15, 31, 63},
      {7, 15, 63},
      {0, 31},
      {3, 15, 31, 63}>>

KeccakRho ==
    <<0, 1, 62, 28, 27,
      36, 44, 6, 55, 20,
      3, 10, 43, 25, 39,
      41, 45, 15, 21, 8,
      18, 2, 61, 56, 14>>

ThetaC(A, x) ==
    LaneXor(A[x + 1], LaneXor(A[x + 6], LaneXor(A[x + 11],
        LaneXor(A[x + 16], A[x + 21]))))

ThetaD(C, x) ==
    LaneXor(C[((x + 4) % 5) + 1], LaneRotl(C[((x + 1) % 5) + 1], 1))

Theta(A) ==
    LET C == <<ThetaC(A, 0), ThetaC(A, 1), ThetaC(A, 2), ThetaC(A, 3), ThetaC(A, 4)>>
        D == <<ThetaD(C, 0), ThetaD(C, 1), ThetaD(C, 2), ThetaD(C, 3), ThetaD(C, 4)>>
    IN  <<LaneXor(A[1], D[1]), LaneXor(A[2], D[2]), LaneXor(A[3], D[3]),
          LaneXor(A[4], D[4]), LaneXor(A[5], D[5]), LaneXor(A[6], D[1]),
          LaneXor(A[7], D[2]), LaneXor(A[8], D[3]), LaneXor(A[9], D[4]),
          LaneXor(A[10], D[5]), LaneXor(A[11], D[1]), LaneXor(A[12], D[2]),
          LaneXor(A[13], D[3]), LaneXor(A[14], D[4]), LaneXor(A[15], D[5]),
          LaneXor(A[16], D[1]), LaneXor(A[17], D[2]), LaneXor(A[18], D[3]),
          LaneXor(A[19], D[4]), LaneXor(A[20], D[5]), LaneXor(A[21], D[1]),
          LaneXor(A[22], D[2]), LaneXor(A[23], D[3]), LaneXor(A[24], D[4]),
          LaneXor(A[25], D[5])>>

RhoPi(A) ==
    <<LaneRotl(A[1], KeccakRho[1]), LaneRotl(A[7], KeccakRho[7]),
      LaneRotl(A[13], KeccakRho[13]), LaneRotl(A[19], KeccakRho[19]),
      LaneRotl(A[25], KeccakRho[25]), LaneRotl(A[4], KeccakRho[4]),
      LaneRotl(A[10], KeccakRho[10]), LaneRotl(A[11], KeccakRho[11]),
      LaneRotl(A[17], KeccakRho[17]), LaneRotl(A[23], KeccakRho[23]),
      LaneRotl(A[2], KeccakRho[2]), LaneRotl(A[8], KeccakRho[8]),
      LaneRotl(A[14], KeccakRho[14]), LaneRotl(A[20], KeccakRho[20]),
      LaneRotl(A[21], KeccakRho[21]), LaneRotl(A[5], KeccakRho[5]),
      LaneRotl(A[6], KeccakRho[6]), LaneRotl(A[12], KeccakRho[12]),
      LaneRotl(A[18], KeccakRho[18]), LaneRotl(A[24], KeccakRho[24]),
      LaneRotl(A[3], KeccakRho[3]), LaneRotl(A[9], KeccakRho[9]),
      LaneRotl(A[15], KeccakRho[15]), LaneRotl(A[16], KeccakRho[16]),
      LaneRotl(A[22], KeccakRho[22])>>

Chi(B) ==
    <<LaneXor(B[1], LaneAndNot(B[2], B[3])),
      LaneXor(B[2], LaneAndNot(B[3], B[4])),
      LaneXor(B[3], LaneAndNot(B[4], B[5])),
      LaneXor(B[4], LaneAndNot(B[5], B[1])),
      LaneXor(B[5], LaneAndNot(B[1], B[2])),
      LaneXor(B[6], LaneAndNot(B[7], B[8])),
      LaneXor(B[7], LaneAndNot(B[8], B[9])),
      LaneXor(B[8], LaneAndNot(B[9], B[10])),
      LaneXor(B[9], LaneAndNot(B[10], B[6])),
      LaneXor(B[10], LaneAndNot(B[6], B[7])),
      LaneXor(B[11], LaneAndNot(B[12], B[13])),
      LaneXor(B[12], LaneAndNot(B[13], B[14])),
      LaneXor(B[13], LaneAndNot(B[14], B[15])),
      LaneXor(B[14], LaneAndNot(B[15], B[11])),
      LaneXor(B[15], LaneAndNot(B[11], B[12])),
      LaneXor(B[16], LaneAndNot(B[17], B[18])),
      LaneXor(B[17], LaneAndNot(B[18], B[19])),
      LaneXor(B[18], LaneAndNot(B[19], B[20])),
      LaneXor(B[19], LaneAndNot(B[20], B[16])),
      LaneXor(B[20], LaneAndNot(B[16], B[17])),
      LaneXor(B[21], LaneAndNot(B[22], B[23])),
      LaneXor(B[22], LaneAndNot(B[23], B[24])),
      LaneXor(B[23], LaneAndNot(B[24], B[25])),
      LaneXor(B[24], LaneAndNot(B[25], B[21])),
      LaneXor(B[25], LaneAndNot(B[21], B[22]))>>

Iota(A, ir) == [A EXCEPT ![1] = LaneXor(A[1], KeccakRC[ir + 1])]

KeccakRound(A, ir) == Iota(Chi(RhoPi(Theta(A))), ir)

KeccakRounds == 24

\* rounds ir .. 23 of Keccak-f[1600], each round evaluated before the next
RECURSIVE KeccakF(_, _)
KeccakF(A, ir) ==
    IF ir = KeccakRounds THEN A
    ELSE LET B == KeccakRound(A, ir)
         IN  IF Len(B) = 25 THEN KeccakF(B, ir + 1) ELSE B

Rate == 136
DigestLen == 32
ZeroState == [l \in 1..25 |-> {}]

\* the SHA-3 domain bits and pad10*1: 0x06 0x00 ... 0x80 up to the rate
Pad(m) ==
    LET n == Len(m)
        p == Rate - (n % Rate)
    IN  [j \in 1..(n + p) |->
            IF j <= n THEN m[j]
            ELSE IF p = 1 THEN 134
            ELSE IF j = n + 1 THEN 6
            ELSE IF j = n + p THEN 128
            ELSE 0]

BlockLane(m, off, l) ==
    IF l < Rate \div 8
    THEN {z \in 0..63 : Bit(m[off + 8 * l + (z \div 8) + 1], z % 8) = 1}
    ELSE {}

Absorb(A, m, off) ==
    <<LaneXor(A[1], BlockLane(m, off, 0)), LaneXor(A[2], BlockLane(m, off, 1)),
      LaneXor(A[3], BlockLane(m, off, 2)), LaneXor(A[4], BlockLane(m, off, 3)),
      LaneXor(A[5], BlockLane(m, off, 4)), LaneXor(A[6], BlockLane(m, off, 5)),
      LaneXor(A[7], BlockLane(m, off, 6)), LaneXor(A[8], BlockLane(m, off, 7)),
      LaneXor(A[9], BlockLane(m, off, 8)), LaneXor(A[10], BlockLane(m, off, 9)),
      LaneXor(A[11], BlockLane(m, off, 10)), LaneXor(A[12], BlockLane(m, off, 11)),
      LaneXor(A[13], BlockLane(m, off, 12)), LaneXor(A[14], BlockLane(m, off, 13)),
      LaneXor(A[15], BlockLane(m, off, 14)), LaneXor(A[16], BlockLane(m, off, 15)),
      LaneXor(A[17], BlockLane(m, off, 16)), LaneXor(A[18], BlockLane(m, off, 17)),
      LaneXor(A[19], BlockLane(m, off, 18)), LaneXor(A[20], BlockLane(m, off, 19)),
      LaneXor(A[21], BlockLane(m, off, 20)), LaneXor(A[22], BlockLane(m, off, 21)),
      LaneXor(A[23], BlockLane(m, off, 22)), LaneXor(A[24], BlockLane(m, off, 23)),
      LaneXor(A[25], BlockLane(m, off, 24))>>

RECURSIVE Sponge(_, _, _)
Sponge(A, m, off) ==
    IF off >= Len(m) THEN A
    ELSE Sponge(KeccakF(Absorb(A, m, off), 0), m, off + Rate)

LaneByte(l, k) ==
    LET b(z) == IF (8 * k + z) \in l THEN Pow2[z + 1] ELSE 0
    IN  b(0) + b(1) + b(2) + b(3) + b(4) + b(5) + b(6) + b(7)

Sha3_256(m) ==
    LET A == Sponge(ZeroState, Pad(m), 0)
    IN  [j \in 1..DigestLen |-> LaneByte(A[((j - 1) \div 8) + 1], (j - 1) % 8)]
\* u8::count_ones
count_ones(b) ==
    Bit(b, 0) + Bit(b, 1) + Bit(b, 2) + Bit(b, 3)
        + Bit(b, 4) + Bit(b, 5) + Bit(b, 6) + Bit(b, 7)

\* u8::rotate_left(n): a rotation by n mod 8
rotate_left(x, n) ==
    LET s == n.lo % 8
    IN  ((x * Pow2[s + 1]) % 256) + (x \div Pow2[9 - s])

\* ---------------------------------------------------------------------
\* The key schedule.

\* x + y where x is a sum so far with its overflow flag
checked_add(x, y) ==
    LET s == U32Add(x.val, y)
    IN  [val |-> s.val, overflow |-> x.overflow \/ s.overflow]

\* key.iter().fold(0, |x, b| x + b.count_ones()): the fold from key[j] on,
\* x being the accumulator
RECURSIVE key_fold(_, _, _)
key_fold(key, j, x) ==
    IF j > Len(key) THEN x
    ELSE key_fold(key, j + 1, checked_add(x, U32(count_ones(key[j]))))

\* mutant of decrypt_round_index: the index of encryption, i
decrypt_round_index_forward(rounds, i) == i

\* mutant of decrypt_round_index: rounds - i
decrypt_round_index_off_by_one(rounds, i) == U32Sub(rounds, i)

\* the forward round index whose subkey decryption step i replays
decrypt_round_index(rounds, i) == U32Sub(U32Sub(rounds, i), U32(1))

\* salt = fold + round index
key_salt(key, index) ==
    checked_add(key_fold(key, 1, [val |-> U32(0), overflow |-> FALSE]), index)

encrypt_salt(key, i) == key_salt(key, i)
decrypt_salt(key, rounds, i) == key_salt(key, decrypt_round_index(rounds, i))

\* key.iter().map(|x| x.rotate_left(salt)).collect()
derive_subkey(key, salt) == [j \in 1..Len(key) |-> rotate_left(key[j], salt)]

\* ---------------------------------------------------------------------
\* The round function.

\* mutant of length_adapt: a longer result is filled with zeros
length_adapt_zero_fill(hash, data) ==
    [j \in 1..Len(data) |-> IF j <= Len(hash) THEN hash[j] ELSE 0]

\* result: the digest cut, kept or cycled to the length of data
length_adapt(hash, data) ==
    IF Len(data) < Len(hash) THEN SubSeq(hash, 1, Len(data))
    ELSE IF Len(data) = Len(hash) THEN hash
    ELSE [j \in 1..Len(data) |-> hash[((j - 1) % Len(hash)) + 1]]

\* hasher.input(subkey); hasher.input(data); hasher.result()
round_fn(data, subkey) == length_adapt(Sha3_256(subkey \o data), data)

\* ---------------------------------------------------------------------
\* One Feistel round.

\* every index of the xor step is inside left and tmp
xor_indices_ok(left, tmp) ==
    IF Len(left) <= Len(tmp)
    THEN \A j \in 1..Len(left) : j <= Len(left) /\ j <= Len(tmp)
    ELSE /\ \A j \in 1..Len(tmp) : j <= Len(left) /\ j <= Len(tmp)
         /\ Len(left) >= 1

\* mutant of xor_halves: the last byte of a longer left is dropped
xor_halves_no_tail(left, tmp) ==
    IF Len(left) <= Len(tmp)
    THEN [j \in 1..Len(left) |-> Xor8(left[j], tmp[j])]
    ELSE [j \in 1..Len(tmp) |-> Xor8(left[j], tmp[j])]

\* mutant of xor_halves: left[0] is pushed instead of left[left.len() - 1]
xor_halves_first_byte(left, tmp) ==
    IF Len(left) <= Len(tmp)
    THEN [j \in 1..Len(left) |-> Xor8(left[j], tmp[j])]
    ELSE Append([j \in 1..Len(tmp) |-> Xor8(left[j], tmp[j])], left[1])

\* updated_right: left ^ tmp, and the last byte of a longer left as it is
xor_halves(left, tmp) ==
    IF Len(left) <= Len(tmp)
    THEN [j \in 1..Len(left) |-> Xor8(left[j], tmp[j])]
    ELSE Append([j \in 1..Len(tmp) |-> Xor8(left[j], tmp[j])], left[Len(left)])

split_at(s, mid) == <<SubSeq(s, 1, mid), SubSeq(s, mid + 1, Len(s))>>

\* mutant of encrypt_split_index: the longer half first
encrypt_split_index_ceil(n) == (n + 1) \div 2

\* plaintext.split_at(plaintext_length / 2)
encrypt_split_index(n) == n \div 2

\* mutant of decrypt_split_index: always len / 2
decrypt_split_index_floor(n, rounds) == n \div 2

\* the split that puts encryption's last Right on the left
decrypt_split_index(n, rounds) ==
    IF (rounds.lo % 2 = 0) /\ (n % 2 = 1) THEN (n \div 2) + 1 ELSE n \div 2

\* mutant of recombine: left || right
recombine_unswapped(left, right) == left \o right

\* right.append(&mut left); right
recombine(left, right) == right \o left

\* overflow-checks is a setting of the build: on (the dev profile) an
\* overflowing add panics, off (the release profile) it wraps
OverflowChecks(s) == IF s.overflow THEN {TRUE, FALSE} ELSE {FALSE}

\* ---------------------------------------------------------------------
\* State.

VARIABLES
    pc,           \* "idle", "encrypt", "encrypted", "decrypt", "decrypted", "panicked";
                  \* "round_fn", "round_fn_returned" for a call of round_fn alone
    panic,        \* the panic message, "" while there is none
    plaintext,    \* feistel_encrypt's argument
    key,          \* the key of the call
    rounds,       \* the round count of the call (u32)
    ciphertext,   \* feistel_encrypt's result, feistel_decrypt's argument
    decrypted,    \* feistel_decrypt's result
    left, right,  \* the two halves
    i,            \* iterations of the loop completed
    salt, subkey, \* of the last iteration
    tmp,          \* round_fn's result in the last iteration
    enc_halves,   \* history: <<left, right>> of feistel_encrypt after 0, 1, ... rounds
    enc_subkeys   \* history: the subkey of each round of feistel_encrypt

vars == <<pc, panic, plaintext, key, rounds, ciphertext, decrypted, left, right,
          i, salt, subkey, tmp, enc_halves, enc_subkeys>>

locals == <<left, right, i, salt, subkey, tmp>>

Init ==
    /\ pc = "idle"
    /\ panic = ""
    /\ plaintext = <<>>
    /\ key = <<>>
    /\ rounds = U32(0)
    /\ ciphertext = <<>>
    /\ decrypted = <<>>
    /\ left = <<>>
    /\ right = <<>>
    /\ i = 0
    /\ salt = U32(0)
    /\ subkey = <<>>
    /\ tmp = <<>>
    /\ enc_halves = <<>>
    /\ enc_subkeys = <<>>

Panic(msg) ==
    /\ pc' = "panicked"
    /\ panic' = msg
    /\ UNCHANGED <<plaintext, key, rounds, ciphertext, decrypted, locals,
                   enc_halves, enc_subkeys>>

\* feistel_encrypt(p, k, r) up to its loop
EncryptCall(p, k, r) ==
    /\ pc = "idle"
    /\ pc' = "encrypt"
    /\ plaintext' = p
    /\ key' = k
    /\ rounds' = r
    /\ left' = split_at(p, encrypt_split_index(Len(p)))[1]
    /\ right' = split_at(p, encrypt_split_index(Len(p)))[2]
    /\ i' = 0
    /\ enc_halves' = <<<<left', right'>>>>
    /\ enc_subkeys' = <<>>
    /\ UNCHANGED <<panic, ciphertext, decrypted, salt, subkey, tmp>>

\* right.clone().to_vec()
updated_left(r) == r

\* the halves after one iteration over (left, right) with the subkey sk;
\* asserting: the iteration is feistel_decrypt's, with its assert_eq!
Round(sk, asserting) ==
    /\ subkey' = sk
    /\ tmp' = round_fn(right, sk)
    /\ IF ~xor_indices_ok(left, tmp')
       THEN /\ pc' = "panicked"
            /\ panic' = "index out of bounds"
            /\ UNCHANGED <<left, right, i>>
       ELSE IF asserting /\ right # updated_left(right)
       THEN /\ pc' = "panicked"
            /\ panic' = "assertion failed: right == updated_left"
            /\ UNCHANGED <<left, right, i>>
       ELSE /\ right' = xor_halves(left, tmp')
            /\ left' = updated_left(right)
            /\ i' = i + 1
            /\ UNCHANGED <<pc, panic>>

\* one iteration of feistel_encrypt's loop
EncryptRound ==
    /\ pc = "encrypt"
    /\ U32Less(U32(i), rounds)
    /\ i < MaxRounds      \* bound: a loop of u32::MAX rounds is not followed to its end
    /\ LET s == encrypt_salt(key, U32(i))
       IN  \E checked \in OverflowChecks(s) :
               IF checked
               THEN Panic("attempt to add with overflow")
               ELSE /\ salt' = s.val
                    /\ Round(derive_subkey(key, s.val), FALSE)
                    /\ enc_halves' = IF pc' = "encrypt"
                                     THEN Append(enc_halves, <<left', right'>>)
                                     ELSE enc_halves
                    /\ enc_subkeys' = Append(enc_subkeys, subkey')
                    /\ UNCHANGED <<plaintext, key, rounds, ciphertext, decrypted>>

\* feistel_encrypt returns
EncryptReturn ==
    /\ pc = "encrypt"
    /\ U32(i) = rounds
    /\ pc' = "encrypted"
    /\ ciphertext' = recombine(left, right)
    /\ UNCHANGED <<panic, plaintext, key, rounds, decrypted, locals,
                   enc_halves, enc_subkeys>>

\* feistel_decrypt(c, k, r) up to its loop
DecryptStart(c, k, r) ==
    /\ pc' = "decrypt"
    /\ ciphertext' = c
    /\ key' = k
    /\ rounds' = r
    /\ left' = split_at(c, decrypt_split_index(Len(c), r))[1]
    /\ right' = split_at(c, decrypt_split_index(Len(c), r))[2]
    /\ i' = 0
    /\ UNCHANGED <<panic, plaintext, decrypted, salt, subkey, tmp>>

\* feistel_decrypt on what feistel_encrypt returned, with its key and rounds
DecryptEncrypted ==
    /\ pc = "encrypted"
    /\ DecryptStart(ciphertext, key, rounds)
    /\ UNCHANGED <<enc_halves, enc_subkeys>>

\* feistel_decrypt on any input
DecryptCall(c, k, r) ==
    /\ pc = "idle"
    /\ DecryptStart(c, k, r)
    /\ UNCHANGED <<enc_halves, enc_subkeys>>

\* one iteration of feistel_decrypt's loop
DecryptRound ==
    /\ pc = "decrypt"
    /\ U32Less(U32(i), rounds)
    /\ i < MaxRounds      \* bound: a loop of u32::MAX rounds is not followed to its end
    /\ LET s == decrypt_salt(key, rounds, U32(i))
       IN  \E checked \in OverflowChecks(s) :
               IF checked
               THEN Panic("attempt to add with overflow")
               ELSE /\ salt' = s.val
                    /\ Round(derive_subkey(key, s.val), TRUE)
                    /\ UNCHANGED <<plaintext, key, rounds, ciphertext, decrypted,
                                   enc_halves, enc_subkeys>>

\* feistel_decrypt returns
DecryptReturn ==
    /\ pc = "decrypt"
    /\ U32(i) = rounds
    /\ pc' = "decrypted"
    /\ decrypted' = recombine(left, right)
    /\ UNCHANGED <<panic, plaintext, key, rounds, ciphertext, locals,
                   enc_halves, enc_subkeys>>

Next ==
    \/ \E p \in Inputs, k \in Keys, r \in RoundCounts : EncryptCall(p, k, r)
    \/ EncryptRound
    \/ EncryptReturn
    \/ DecryptEncrypted
    \/ \E c \in Inputs, k \in Keys, r \in RoundCounts : DecryptCall(c, k, r)
    \/ DecryptRound
    \/ DecryptReturn

Spec == Init /\ [][Next]_vars

\* ---------------------------------------------------------------------
\* round_fn on its own: Init draws (data, subkey), the one action calls it.
\* data is held in right and the result in tmp, as in a round.

\* data as long as MaxCycles digests, one byte less and one byte more
MaxCycles == 2

RoundFnLens ==
    {0, 1, 2} \cup {c * DigestLen + d : c \in 1..MaxCycles, d \in {-1, 0, 1}}
RoundFnData == {[j \in 1..n |-> (m * j) % 256] : n \in RoundFnLens, m \in {7, 13}}
RoundFnSubkeys == {derive_subkey(k, U32(s)) : k \in Keys, s \in {0, 1}}

InitRoundFn ==
    /\ pc = "round_fn"
    /\ panic = ""
    /\ plaintext = <<>>
    /\ key = <<>>
    /\ rounds = U32(0)
    /\ ciphertext = <<>>
    /\ decrypted = <<>>
    /\ left = <<>>
    /\ right \in RoundFnData
    /\ i = 0
    /\ salt = U32(0)
    /\ subkey \in RoundFnSubkeys
    /\ tmp = <<>>
    /\ enc_halves = <<>>
    /\ enc_subkeys = <<>>

RoundFnCall ==
    /\ pc = "round_fn"
    /\ pc' = "round_fn_returned"
    /\ tmp' = round_fn(right, subkey)
    /\ UNCHANGED <<panic, plaintext, key, rounds, ciphertext, decrypted, left,
                   right, i, salt, subkey, enc_halves, enc_subkeys>>

SpecRoundFn == InitRoundFn /\ [][RoundFnCall]_vars

\* ---------------------------------------------------------------------
\* Properties.

\* the running feistel_decrypt was given what feistel_encrypt returned,
\* with the same key and rounds
RoundTrip == enc_halves # <<>>

InEncrypt == pc \in {"encrypt", "encrypted"}
InDecrypt == pc \in {"decrypt", "decrypted"}

\* C1: feistel_decrypt(feistel_encrypt(plaintext, key, rounds), key, rounds)
\* is plaintext.
C1_RoundTrip ==
    (pc = "decrypted" /\ RoundTrip) => decrypted = plaintext

C1_Witness ==
    /\ pc = "decrypted"
    /\ RoundTrip
    /\ rounds = U32(2)
    /\ Len(plaintext) = 3
    /\ key # <<>>
    /\ ciphertext # plaintext
    /\ decrypted = plaintext

\* C2: feistel_encrypt returns as many bytes as its plaintext has and
\* feistel_decrypt as many as its ciphertext has; an empty input gives an
\* empty output.
C2_LengthPreserved ==
    /\ pc = "encrypted" => Len(ciphertext) = Len(plaintext)
    /\ pc = "decrypted" => Len(decrypted) = Len(ciphertext)
    /\ (pc = "encrypted" /\ plaintext = <<>>) => ciphertext = <<>>
    /\ (pc = "decrypted" /\ ciphertext = <<>>) => decrypted = <<>>

C2_Witness ==
    /\ pc = "decrypted"
    /\ ~RoundTrip
    /\ rounds = U32(3)
    /\ Len(ciphertext) = 3
    /\ Len(decrypted) = 3

\* C3: with rounds = 0 feistel_encrypt returns Right || Left, the two halves
\* of the plaintext split at n / 2, and feistel_decrypt with rounds = 0
\* gives the plaintext back.
C3_ZeroRoundsSwap ==
    LET n == Len(plaintext)
    IN  /\ (pc = "encrypted" /\ rounds = U32(0)) =>
              ciphertext = SubSeq(plaintext, (n \div 2) + 1, n)
                               \o SubSeq(plaintext, 1, n \div 2)
        /\ (pc = "decrypted" /\ RoundTrip /\ rounds = U32(0)) =>
              decrypted = plaintext

C3_Witness ==
    /\ pc = "decrypted"
    /\ RoundTrip
    /\ rounds = U32(0)
    /\ plaintext = <<0, 123, 123>>
    /\ ciphertext = <<123, 123, 0>>
    /\ decrypted = plaintext

\* C4: the subkey of step i of feistel_decrypt is the subkey of round
\* rounds - 1 - i of feistel_encrypt: decryption replays the subkeys of
\* encryption in reverse order.  (After i >= 1 steps, subkey is that of
\* step i - 1.)
C4_ScheduleSymmetry ==
    (InDecrypt /\ RoundTrip /\ i >= 1) =>
        subkey = enc_subkeys[Len(enc_subkeys) - (i - 1)]

C4_Witness ==
    /\ pc = "decrypt"
    /\ RoundTrip
    /\ rounds = U32(3)
    /\ i = 1
    /\ key = <<3, 128>>
    /\ subkey = enc_subkeys[3]
    /\ enc_subkeys[3] # enc_subkeys[1]

\* C5: feistel_encrypt and feistel_decrypt never panic, whatever the input.
C5_NeverPanics == pc # "panicked"

\* C6 as stated: for rounds >= 1 and a plaintext of two bytes or more,
\* feistel_encrypt never returns its plaintext.
C6_NonIdentity ==
    (pc = "encrypted" /\ U32Less(U32(0), rounds) /\ Len(plaintext) >= 2) =>
        ciphertext # plaintext

\* C6 as amended: with rounds = 1 and a plaintext of n >= 2 bytes,
\* feistel_encrypt returns its plaintext exactly when the first n / 2 bytes
\* of round_fn(Right, subkey) are all zero.
C6_OneRoundIdentity ==
    (pc = "encrypted" /\ rounds = U32(1) /\ Len(plaintext) >= 2) =>
        ((ciphertext = plaintext)
            <=> (\A j \in 1..(Len(plaintext) \div 2) : tmp[j] = 0))

C6_Witness ==
    /\ pc = "encrypted"
    /\ rounds = U32(1)
    /\ Len(plaintext) >= 2
    /\ ciphertext = plaintext
    /\ tmp[1] = 0

\* C7: after j steps feistel_decrypt holds, as (Left, Right), the
\* (Right, Left) that feistel_encrypt held after rounds - j rounds; for
\* j = 0 this is the split of the ciphertext.
C7_StepwiseInverse ==
    (InDecrypt /\ RoundTrip) =>
        /\ left = enc_halves[Len(enc_halves) - i][2]
        /\ right = enc_halves[Len(enc_halves) - i][1]

C7_Witness ==
    /\ pc = "decrypt"
    /\ RoundTrip
    /\ rounds = U32(2)
    /\ Len(ciphertext) = 3
    /\ i = 1
    /\ Len(left) = 1
    /\ left = enc_halves[2][2]

\* C8: in both loops the halves add up to the input and differ in length by
\* at most one (tmp, as long as the Right it was computed from, is never more
\* than one byte shorter than Left); in feistel_encrypt they are
\* (floor(n/2), ceil(n/2)) after an even number of rounds and
\* (ceil(n/2), floor(n/2)) after an odd number.
C8_HalfLengths ==
    LET n == IF InEncrypt THEN Len(plaintext) ELSE Len(ciphertext)
    IN  /\ (InEncrypt \/ InDecrypt) =>
              /\ Len(left) + Len(right) = n
              /\ Len(left) - Len(right) \in {-1, 0, 1}
              /\ i >= 1 => Len(tmp) = Len(left)
        /\ InEncrypt =>
              IF i % 2 = 0
              THEN Len(left) = n \div 2 /\ Len(right) = n - (n \div 2)
              ELSE Len(left) = n - (n \div 2) /\ Len(right) = n \div 2

C8_Witness ==
    /\ pc = "decrypt"
    /\ i = 2
    /\ Len(ciphertext) = LongLen + 1
    /\ Len(left) = Len(right) + 1

\* C9: round_fn(data, subkey) has len(data) bytes, byte i being byte
\* i mod 32 of the digest of subkey || data; it is empty for empty data.
C9_RoundFnAdapts ==
    pc = "round_fn_returned" =>
        LET digest == Sha3_256(subkey \o right)
        IN  /\ Len(digest) = DigestLen
            /\ Len(tmp) = Len(right)
            /\ \A j \in 1..Len(tmp) : tmp[j] = digest[((j - 1) % DigestLen) + 1]
            /\ right = <<>> => tmp = <<>>

C9_Witness ==
    /\ pc = "round_fn_returned"
    /\ subkey # <<>>
    /\ Len(right) = 2 * DigestLen + 1
    /\ Len(tmp) = 2 * DigestLen + 1
    /\ tmp[2 * DigestLen + 1] = tmp[1]

\* C10: the last byte of a plaintext of odd length n is never xored: it is
\* the last byte of the longer half after every round, and in the output
\* it is at index n - 1 for odd rounds and floor(n/2) for even rounds
\* (counting from 0).
C10_TrailingByte ==
    LET n == Len(plaintext)
    IN  (InEncrypt /\ n % 2 = 1) =>
            /\ IF i % 2 = 0
               THEN right[Len(right)] = plaintext[n]
               ELSE left[Len(left)] = plaintext[n]
            /\ pc = "encrypted" =>
                  /\ ciphertext[IF i % 2 = 1 THEN n ELSE (n \div 2) + 1] = plaintext[n]
                  /\ n = 1 => ciphertext = plaintext

C10_Witness ==
    /\ pc = "encrypted"
    /\ rounds = U32(3)
    /\ plaintext = <<123, 123, 0>>
    /\ ciphertext[3] = 0
    /\ ciphertext[1] # 123
    /\ ciphertext[2] # 123

====
